---- MODULE Spec2Model ----
(***************************************************************************)
(* Model of the rsx template-body core of dioxus (packages/rsx):           *)
(*   - Element::parse: the attribute loop and the merge loop               *)
(*     (node/element.rs),                                                  *)
(*   - TemplateBody::from_nodes / assign_paths_inner / assign_attr_idx /   *)
(*     assign_path_to and the path resolvers get_dyn_node / get_dyn_attr   *)
(*     (body.rs),                                                          *)
(*   - Component::parse with its four validate_* passes, collect_props and *)
(*     Component::to_tokens (node/component.rs, diagnostics.rs),           *)
(*   - the emission of a body: implicit_key, TemplateBody::to_tokens and   *)
(*     Element::to_tokens (body.rs, node/element.rs).                      *)
(* Lists are TLA+ sequences (1-based); every index the code computes is    *)
(* kept 0-based, as in the code, and converted at the access.              *)
(***************************************************************************)
EXTENDS Integers, Sequences, FiniteSets, TLC

\* ------------------------------------------------------------------------
\* Bounds of the model
\* ------------------------------------------------------------------------
\* longest raw attribute list Element::parse is fed
MaxAttrs == 3
\* most children Element::parse is fed
MaxParsedChildren == 1

\* Number of values of a u8: `idx as u8` keeps the value modulo 256.
U8Range == 256

\* ------------------------------------------------------------------------
\* Attribute / value model
\* ------------------------------------------------------------------------
\* A formatted string (IfmtInput) is a sequence of segments: a literal
\* character, or the interpolation "{x}".
Interp == "{x}"

\* IfmtInput::is_static: no interpolated segment
IfmtIsStatic(segs) == \A i \in 1..Len(segs) : segs[i] # Interp

BuiltIn(id) == [kind |-> "BuiltIn", id |-> id]
Custom(id)  == [kind |-> "Custom", id |-> id]

AttrLiteral(segs) == [kind |-> "AttrLiteral", segs |-> segs]
EventTokens       == [kind |-> "EventTokens", segs |-> <<>>]
Shorthand         == [kind |-> "Shorthand", segs |-> <<>>]
SpreadValue       == [kind |-> "Spread", segs |-> <<>>]

\* AttributeType::Named(ElementAttrNamed { attr: ElementAttr { name, value } })
Named(name, value) == [type |-> "Named", name |-> name, value |-> value]
\* AttributeType::Spread(expr); a spread has no attribute name
Spread == [type |-> "Spread", name |-> [kind |-> "Spread", id |-> << ".", "." >>], value |-> SpreadValue]

\* AttributeType::matches_attr_name: two named attributes with the same
\* resolved name (built-in name equality or identical custom string); a
\* spread never matches anything.
matches_attr_name(a, b) ==
    /\ a.type = "Named"
    /\ b.type = "Named"
    /\ a.name = b.name

\* AttributeType::try_combine: Some(combined) as <<combined>>, None as <<>>.
\* Combination is defined for two static string fragments of the same name,
\* which concatenate; for every other pair it is not defined.
try_combine(old, new) ==
    IF /\ matches_attr_name(old, new)
       /\ old.value.kind = "AttrLiteral" /\ IfmtIsStatic(old.value.segs)
       /\ new.value.kind = "AttrLiteral" /\ IfmtIsStatic(new.value.segs)
    THEN << Named(old.name, AttrLiteral(old.value.segs \o new.value.segs)) >>
    ELSE << >>

\* AttributeType::is_static_str_literal: a named attribute whose value is a
\* literal with no interpolation.
is_static_str_literal(a) ==
    /\ a.type = "Named"
    /\ a.value.kind = "AttrLiteral"
    /\ IfmtIsStatic(a.value.segs)

\* ------------------------------------------------------------------------
\* The merge loop of Element::parse (element.rs 215-233)
\* ------------------------------------------------------------------------
\* merged_attributes.iter().position(|a| a.matches_attr_name(attr)):
\* the 0-based index of the first match, as <<index>>, or <<>> for None.
Position(merged, attr) ==
    LET hits == { i \in 1..Len(merged) : matches_attr_name(merged[i], attr) }
    IN  IF hits = {} THEN << >>
        ELSE << (CHOOSE i \in hits : \A j \in hits : i <= j) - 1 >>

\* Faulty variant of MergeOne: the `continue` after the combination is missing, so a matched
\* attribute is pushed as well.
MergeOneNoContinue(merged, attr) ==
    LET attr_index == Position(merged, attr)
    IN  IF attr_index # << >>
        THEN LET old == attr_index[1] + 1
                 combined == try_combine(merged[old], attr)
             IN  Append(IF combined # << >>
                        THEN [merged EXCEPT ![old] = combined[1]]
                        ELSE merged, attr)
        ELSE Append(merged, attr)

\* Faulty variant of MergeOne: a matched attribute that cannot be combined replaces the old entry
\* (last wins) instead of being discarded.
MergeOneLastWins(merged, attr) ==
    LET attr_index == Position(merged, attr)
    IN  IF attr_index # << >>
        THEN LET old == attr_index[1] + 1
                 combined == try_combine(merged[old], attr)
             IN  IF combined # << >>
                 THEN [merged EXCEPT ![old] = combined[1]]
                 ELSE [merged EXCEPT ![old] = attr]
        ELSE Append(merged, attr)

\* Faulty variant of MergeOne: a matched entry is moved to the end of the merged list when it is
\* combined.
MergeOneMoves(merged, attr) ==
    LET attr_index == Position(merged, attr)
    IN  IF attr_index # << >>
        THEN LET old == attr_index[1] + 1
                 combined == try_combine(merged[old], attr)
                 rest == SubSeq(merged, 1, old - 1) \o SubSeq(merged, old + 1, Len(merged))
             IN  IF combined # << >>
                 THEN Append(rest, combined[1])
                 ELSE merged
        ELSE Append(merged, attr)

\* One iteration of `for attr in &attributes` (element.rs 217-233).
MergeOne(merged, attr) ==
    LET attr_index == Position(merged, attr)
    IN  IF attr_index # << >>
        THEN LET old == attr_index[1] + 1
                 combined == try_combine(merged[old], attr)
             IN  IF combined # << >>
                 THEN [merged EXCEPT ![old] = combined[1]]
                 ELSE merged
        ELSE Append(merged, attr)

\* The whole loop: merged_attributes of a raw list.
RECURSIVE MergeFrom(_, _, _)
MergeFrom(merged, attrs, i) ==
    IF i > Len(attrs) THEN merged
    ELSE MergeFrom(MergeOne(merged, attrs[i]), attrs, i + 1)

MergeAttributes(attrs) == MergeFrom(<< >>, attrs, 1)

\* ------------------------------------------------------------------------
\* Node model (BodyNode)
\* ------------------------------------------------------------------------
\* Every node is a record with the same fields; the fields a variant does
\* not have are empty.
\*   Text:      input = the formatted string
\*   Element:   attributes (raw), merged_attributes, children, key
\*   ForLoop / IfChain / Component: body = the roots of the nested
\*              TemplateBody (for an IfChain: of its branch)
\*   RawExpr:   nothing
TextNode(segs) ==
    [kind |-> "Text", input |-> segs, attributes |-> << >>,
     merged_attributes |-> << >>, children |-> << >>, body |-> << >>, key |-> << >>]

RawExprNode ==
    [kind |-> "RawExpr", input |-> << >>, attributes |-> << >>,
     merged_attributes |-> << >>, children |-> << >>, body |-> << >>, key |-> << >>]

\* kind is "ForLoop", "IfChain" or "Component"
NestedNode(kind, roots) ==
    [kind |-> kind, input |-> << >>, attributes |-> << >>,
     merged_attributes |-> << >>, children |-> << >>, body |-> roots, key |-> << >>]

\* Ok(Element { name, key, attributes, merged_attributes, children, brace })
ElementNode(key, attrs, merged, kids) ==
    [kind |-> "Element", input |-> << >>, attributes |-> attrs,
     merged_attributes |-> merged, children |-> kids, body |-> << >>, key |-> key]

\* TextNode::is_static
TextIsStatic(node) == IfmtIsStatic(node.input)

\* ------------------------------------------------------------------------
\* Element::parse (element.rs 23-244) as a state machine
\* ------------------------------------------------------------------------
VARIABLES
    attributes,         \* let mut attributes: the raw list, declaration order
    key,                \* let mut key: << >> for None, <<ifmt>> for Some
    el_children,        \* let mut children
    merged_attributes,  \* let mut merged_attributes
    merge_i,            \* attributes consumed by the merge loop
    epc,                \* "attrs", "children", "merge", "ok" (Ok(Element)), "err" (Err)
    parse_error         \* the syn::Error of an Err result, << >> while there is none

pvars == << attributes, key, el_children, merged_attributes, merge_i, epc, parse_error >>

\* The state of the indexing pass (see TemplateBody below).
VARIABLES
    doc,          \* the parsed roots of the outermost body (nested bodies inside)
    todo,         \* the bodies still to be built, in the order parsing builds them
    bodies,       \* body name -> TemplateBody {roots, node_paths, attr_paths, current_path}
    pc,           \* "idle", "head", "visit", "pop", "done"
    walk,         \* the loop variable `idx` of every active assign_paths_inner call
    idx_writes,   \* the `idx.set(..)` calls so far: [body, node, cell, idx] for a
                  \* node, cell being the field of the node that was set;
                  \* [body, node, attr, idx] for an attribute of an element
    node_origin,  \* history: body name -> the node each node_paths entry was pushed for
    attr_origin,  \* history: body name -> <<element, attr_idx>> of each attr_paths entry
    attr_i,       \* the loop variable `attr_idx` of the scan of merged_attributes
    resolved,     \* the last dynamic_nodes() / dynamic_attributes() result
    visits        \* history: [body, node] of every loop iteration entered so far

ivars == << doc, todo, bodies, pc, walk, idx_writes, node_origin, attr_origin, attr_i, resolved,
           visits >>

\* The state of Component::parse and Component::to_tokens (see Component below).
VARIABLES
    c_name,       \* self.name: the path, a sequence of segments
    fields,       \* self.fields, declaration order
    diagnostics,  \* self.diagnostics.diagnostics
    cpc,          \* "none", "children", "validate_path", "validate_fields",
                  \* "validate_key", "validate_spread", "ok" (Ok(component)),
                  \* "extended" (the caller has extended the diagnostics),
                  \* "emitted", "panic"
    c_tokens      \* what Component::to_tokens appended, << >> before it ran

cvars == << c_name, fields, diagnostics, cpc, c_tokens >>

\* The state of template emission (see ToTokens for TemplateBody below).
VARIABLES
    emitted       \* the last TemplateBody::to_tokens call, << >> before the first:
                  \* its body, how far it is, its key tokens and the tokens appended

evars == << emitted >>

vars == << attributes, key, el_children, merged_attributes, merge_i, epc, parse_error,
           doc, todo, bodies, pc, walk, idx_writes, node_origin, attr_origin, attr_i, resolved,
           visits, c_name, fields, diagnostics, cpc, c_tokens, emitted >>

\* identifiers, as character sequences
ClassName == << "c", "l", "a", "s", "s" >>
OnClick   == << "o", "n", "c", "l", "i", "c", "k" >>
OnBlur    == << "o", "n", "b", "l", "u", "r" >>
KeyName   == << "k", "e", "y" >>
ChildrenName == << "c", "h", "i", "l", "d", "r", "e", "n" >>

\* name_str.starts_with("on")
StartsWithOn(name) == Len(name) >= 2 /\ name[1] = "o" /\ name[2] = "n"

\* the tokens the parser is fed
IdentNames     == { ClassName, OnClick, OnBlur, KeyName }
LitStrNames    == { ClassName }
ShorthandNames == { ClassName, OnClick, ChildrenName }
AttrValues     == { AttrLiteral(<< "a" >>), AttrLiteral(<< "b" >>), AttrLiteral(<< Interp >>) }
KeyValues      == { << "k" >>, << Interp >> }
ChildChoices   == { TextNode(<< "h" >>) }
\* what follows an attribute: the end of the block, a comma, or neither
Followers      == { "end", "comma", "nocomma" }

ParseInit ==
    /\ attributes = << >>
    /\ key = << >>
    /\ el_children = << >>
    /\ merged_attributes = << >>
    /\ merge_i = 0
    /\ epc = "attrs"
    /\ parse_error = << >>

\* After an attribute: `if content.is_empty() { break }`, then the comma or
\* missing_trailing_comma!.
AfterAttr(follow) ==
    CASE follow = "end"     -> "merge"
      [] follow = "comma"   -> "attrs"
      [] follow = "nocomma" -> "err"

\* missing_trailing_comma!: the error of an attribute followed by neither
AfterAttrError(follow) ==
    IF follow = "nocomma" THEN << "missing trailing comma" >> ELSE << >>

\* element.rs 113-116: Err(.. format!("Duplicate event listener `{}`", name))
DuplicateListener(name) == << "Duplicate event listener", name >>

\* element.rs 41-55: `..expr`
ParseSpread(follow) ==
    /\ epc = "attrs"
    /\ Len(attributes) < MaxAttrs
    /\ attributes' = Append(attributes, Spread)
    /\ epc' = AfterAttr(follow)
    /\ parse_error' = AfterAttrError(follow)
    /\ UNCHANGED << key, el_children, merged_attributes, merge_i >>
    /\ UNCHANGED << ivars, cvars, evars >>

\* element.rs 59-82: `"name": value`
ParseCustomAttr(name, value, follow) ==
    /\ epc = "attrs"
    /\ Len(attributes) < MaxAttrs
    /\ attributes' = Append(attributes, Named(Custom(name), value))
    /\ epc' = AfterAttr(follow)
    /\ parse_error' = AfterAttrError(follow)
    /\ UNCHANGED << key, el_children, merged_attributes, merge_i >>
    /\ UNCHANGED << ivars, cvars, evars >>

\* element.rs 98-112: is there already a built-in event listener of that name
HasEventListener(attrs, name_str) ==
    \E i \in 1..Len(attrs) :
        /\ attrs[i].type = "Named"
        /\ attrs[i].name.kind = "BuiltIn"
        /\ attrs[i].value.kind = "EventTokens"
        /\ attrs[i].name.id = name_str

\* element.rs 96-124: `onxxx: handler`
ParseEventAttr(name, follow) ==
    /\ epc = "attrs"
    /\ Len(attributes) < MaxAttrs
    /\ StartsWithOn(name)
    /\ IF HasEventListener(attributes, name)
       THEN /\ epc' = "err"
            /\ parse_error' = DuplicateListener(name)
            /\ UNCHANGED attributes
       ELSE /\ attributes' = Append(attributes, Named(BuiltIn(name), EventTokens))
            /\ epc' = AfterAttr(follow)
            /\ parse_error' = AfterAttrError(follow)
    /\ UNCHANGED << key, el_children, merged_attributes, merge_i >>
    /\ UNCHANGED << ivars, cvars, evars >>

\* element.rs 125-132: `key: "..."`; a static key is invalid_key!
ParseKey(name, ifmt, follow) ==
    /\ epc = "attrs"
    /\ ~StartsWithOn(name)
    /\ name = KeyName
    /\ IF IfmtIsStatic(ifmt)
       THEN /\ epc' = "err"
            /\ parse_error' = << "invalid key" >>
            /\ UNCHANGED key
       ELSE /\ key' = << ifmt >>
            /\ epc' = AfterAttr(follow)
            /\ parse_error' = AfterAttrError(follow)
    /\ UNCHANGED << attributes, el_children, merged_attributes, merge_i >>
    /\ UNCHANGED << ivars, cvars, evars >>

\* element.rs 133-142: `name: value`
ParseBuiltInAttr(name, value, follow) ==
    /\ epc = "attrs"
    /\ Len(attributes) < MaxAttrs
    /\ ~StartsWithOn(name)
    /\ name # KeyName
    /\ attributes' = Append(attributes, Named(BuiltIn(name), value))
    /\ epc' = AfterAttr(follow)
    /\ parse_error' = AfterAttrError(follow)
    /\ UNCHANGED << key, el_children, merged_attributes, merge_i >>
    /\ UNCHANGED << ivars, cvars, evars >>

\* element.rs 155-193: shorthand `name`
ParseShorthand(name, follow) ==
    /\ epc = "attrs"
    /\ Len(attributes) < MaxAttrs
    /\ IF name = ChildrenName
       THEN /\ epc' = "err"
            /\ parse_error' = << "Shorthand element children are not supported" >>
            /\ UNCHANGED attributes
       ELSE /\ attributes' = Append(attributes, Named(BuiltIn(name), Shorthand))
            /\ epc' = AfterAttr(follow)
            /\ parse_error' = AfterAttrError(follow)
    /\ UNCHANGED << key, el_children, merged_attributes, merge_i >>
    /\ UNCHANGED << ivars, cvars, evars >>

\* element.rs 195: no attribute pattern matches, `break`
EndAttrs ==
    /\ epc = "attrs"
    /\ epc' = "children"
    /\ UNCHANGED << attributes, key, el_children, merged_attributes, merge_i >>
    /\ UNCHANGED parse_error
    /\ UNCHANGED << ivars, cvars, evars >>

\* element.rs 198-213: one child
ParseChild(node) ==
    /\ epc = "children"
    /\ Len(el_children) < MaxParsedChildren
    /\ el_children' = Append(el_children, node)
    /\ UNCHANGED << attributes, key, merged_attributes, merge_i, epc >>
    /\ UNCHANGED parse_error
    /\ UNCHANGED << ivars, cvars, evars >>

\* element.rs 199-205: attr_after_element!, an attribute after a child
AttrAfterElement ==
    /\ epc = "children"
    /\ Len(el_children) >= 1
    /\ epc' = "err"
    /\ parse_error' = << "attr after element" >>
    /\ UNCHANGED << attributes, key, el_children, merged_attributes, merge_i >>
    /\ UNCHANGED << ivars, cvars, evars >>

\* element.rs 198: content.is_empty(), the merge loop starts
EndChildren ==
    /\ epc = "children"
    /\ epc' = "merge"
    /\ UNCHANGED << attributes, key, el_children, merged_attributes, merge_i >>
    /\ UNCHANGED parse_error
    /\ UNCHANGED << ivars, cvars, evars >>

\* element.rs 217-233: one iteration of the merge loop
MergeStep ==
    /\ epc = "merge"
    /\ merge_i < Len(attributes)
    /\ merged_attributes' = MergeOne(merged_attributes, attributes[merge_i + 1])
    /\ merge_i' = merge_i + 1
    /\ UNCHANGED << attributes, key, el_children, epc >>
    /\ UNCHANGED parse_error
    /\ UNCHANGED << ivars, cvars, evars >>

\* element.rs 235-242: Ok(Element { .. })
FinishElement ==
    /\ epc = "merge"
    /\ merge_i = Len(attributes)
    /\ epc' = "ok"
    /\ UNCHANGED << attributes, key, el_children, merged_attributes, merge_i >>
    /\ UNCHANGED parse_error
    /\ UNCHANGED << ivars, cvars, evars >>

ParseNext ==
    \/ \E f \in Followers : ParseSpread(f)
    \/ \E n \in LitStrNames, v \in AttrValues, f \in Followers : ParseCustomAttr(n, v, f)
    \/ \E n \in IdentNames, f \in Followers : ParseEventAttr(n, f)
    \/ \E n \in IdentNames, k \in KeyValues, f \in Followers : ParseKey(n, k, f)
    \/ \E n \in IdentNames, v \in AttrValues, f \in Followers : ParseBuiltInAttr(n, v, f)
    \/ \E n \in ShorthandNames, f \in Followers : ParseShorthand(n, f)
    \/ EndAttrs
    \/ \E c \in ChildChoices : ParseChild(c)
    \/ AttrAfterElement
    \/ EndChildren
    \/ MergeStep
    \/ FinishElement


\* ------------------------------------------------------------------------
\* Template bodies: the inputs
\* ------------------------------------------------------------------------
\* most nodes of a generated document (nested bodies included)
MaxNodes == 3

\* raw attribute lists of the generated elements
StaticAttr  == Named(BuiltIn(ClassName), AttrLiteral(<< "a" >>))
StaticAttrB == Named(BuiltIn(ClassName), AttrLiteral(<< "b" >>))
DynAttr     == Named(Custom(ClassName), AttrLiteral(<< Interp >>))
RichAttrs == << Spread, StaticAttr, StaticAttrB, DynAttr >>
ElementAttrLists == { << >>, RichAttrs }

\* An element as Element::parse builds it from a raw list and children.
Elem(attrs, kids) == ElementNode(<< >>, attrs, MergeAttributes(attrs), kids)

StaticText == TextNode(<< "h" >>)
DynText    == TextNode(<< "c", Interp >>)
NestedKinds == { "ForLoop", "IfChain", "Component" }

\* Forests(n): the node lists of exactly n nodes; Trees(n): the nodes whose
\* subtree (children or nested body) has n nodes.  The indexing pass treats
\* the three kinds of nested body alike (body.rs 142-145), so the generated
\* trees nest with for loops and KindDocs holds the other two kinds.
RECURSIVE Forests(_), Trees(_)
Trees(n) ==
    IF n = 1
    THEN { StaticText, DynText, RawExprNode, NestedNode("ForLoop", << >>) }
         \cup { Elem(a, << >>) : a \in ElementAttrLists }
    ELSE { Elem(a, f) : a \in ElementAttrLists, f \in Forests(n - 1) }
         \cup { NestedNode("ForLoop", f) : f \in Forests(n - 1) }

Forests(n) ==
    IF n = 0 THEN { << >> }
    ELSE UNION { { << t >> \o f : t \in Trees(k), f \in Forests(n - k) } : k \in 1..n }

SmallDocs == UNION { Forests(n) : n \in 0..MaxNodes }

\* if chains, components and an element of one static attribute
KindDocs ==
    { << NestedNode(k, body) >> \o tail :
        k \in NestedKinds \ { "ForLoop" },
        body \in { << >>, << DynText >>, << Elem(RichAttrs, << RawExprNode >>) >> },
        tail \in { << >>, << DynText >> } }
    \cup { << Elem(<< >>, << NestedNode("IfChain", << DynText >>),
                          NestedNode("Component", << StaticText >>) >>) >>,
           << Elem(<< StaticAttr >>, << StaticText >>), DynText >>,
           << Elem(<< StaticAttr >>, << DynText >>) >> }

\* a component node with a key field: its key and the roots of its children
ComponentNode(k, roots) == [NestedNode("Component", roots) EXCEPT !.key = k]

\* keyed elements and components as the only root of a body, and not
ItemKey == << "k", Interp >>
KeyedElem == ElementNode(<< ItemKey >>, << >>, << >>, << StaticText >>)
KeyedComp == ComponentNode(<< ItemKey >>, << DynText >>)
KeyedDocs ==
    { << KeyedElem >>,
      << KeyedComp >>,
      << KeyedElem, StaticText >>,
      << StaticText, KeyedElem >>,
      << KeyedComp, KeyedElem >>,
      << NestedNode("ForLoop", << KeyedElem >>) >>,
      << NestedNode("ForLoop", << KeyedComp >>) >>,
      << NestedNode("ForLoop", << KeyedElem, KeyedComp >>) >> }

\* Levels wider than a byte: n static texts followed by a tail, as roots or
\* as the children of an element; and an element of more than 256 spreads
\* (a spread never matches, so the merge loop keeps every one of them).
Pad(n) == [i \in 1..n |-> StaticText]
WideAttrs == [i \in 1..(U8Range + 1) |-> Spread]
WideTails ==
    { << DynText >>,
      << RawExprNode, DynText >>,
      << Elem(<< DynAttr >>, << DynText >>) >> }
WideDocs ==
    { Pad(n) \o t : n \in { U8Range - 1, U8Range }, t \in WideTails }
    \cup { << Elem(<< >>, Pad(U8Range) \o << DynText >>) >>,
           << ElementNode(<< >>, WideAttrs, WideAttrs, << >>) >> }

Docs == SmallDocs \cup KindDocs \cup KeyedDocs \cup WideDocs

\* ------------------------------------------------------------------------
\* TemplateBody::from_nodes and the indexing pass (body.rs 89-173)
\* ------------------------------------------------------------------------
\* A node is addressed by its sequence of 0-based offsets (usize, never
\* truncated): relative to the roots of its body inside one body, or from
\* the roots of the document.  A body is named by the document address of
\* the ForLoop / IfChain / Component that owns it, << >> for the outermost.
\* the nodes one step below a node: an element's children, the roots of a
\* nested body
Kids(node) == IF node.kind = "Element" THEN node.children ELSE node.body

RECURSIVE NodeAt(_, _)
NodeAt(nodes, addr) ==
    LET n == nodes[addr[1] + 1]
    IN  IF Len(addr) = 1 THEN n ELSE NodeAt(Kids(n), Tail(addr))

\* the roots handed to from_nodes for the body named b
NodesOf(b) == IF b = << >> THEN doc ELSE NodeAt(doc, b).body

\* The bodies of the nodes lo..hi (1-based) of a node list, in the order
\* their from_nodes calls happen: a nested body is built when its owner is
\* parsed, so after the bodies inside it and before the body its owner lies
\* in.  (The range is halved so that long lists do not nest deeply.)
RECURSIVE BuildOrder(_, _, _, _)
BuildOrder(nodes, prefix, lo, hi) ==
    IF lo > hi THEN << >>
    ELSE IF lo = hi
    THEN LET n == nodes[lo]
             a == Append(prefix, lo - 1)
         IN  BuildOrder(Kids(n), a, 1, Len(Kids(n)))
             \o (IF n.kind \in NestedKinds THEN << a >> ELSE << >>)
    ELSE LET mid == (lo + hi) \div 2
         IN  BuildOrder(nodes, prefix, lo, mid) \o BuildOrder(nodes, prefix, mid + 1, hi)

\* body.rs 90-99: the fresh body of from_nodes
NewBody ==
    [roots |-> << >>, template_idx |-> 0, implicit_key |-> << >>,
     node_paths |-> << >>, attr_paths |-> << >>, current_path |-> << >>]

\* `x as u8`
AsU8(x) == x % U8Range

Front(s) == SubSeq(s, 1, Len(s) - 1)
Last(s) == s[Len(s)]

\* Faulty variant of WalkInto: a loop, branch or component body is walked
\* like the children of an element.
WalkIntoNested(node) ==
    IF node.kind = "Element" THEN << node.children >>
    ELSE IF node.kind \in NestedKinds THEN << node.body >>
    ELSE << >>

\* body.rs 124-132: the list assign_paths_inner recurses into, << >> when
\* the node is not descended into.
WalkInto(node) ==
    IF node.kind = "Element" THEN << node.children >> ELSE << >>

\* the nodes the innermost active assign_paths_inner call iterates over
RECURSIVE LevelOf(_, _)
LevelOf(nodes, w) ==
    IF Len(w) = 1 THEN nodes
    ELSE LevelOf(WalkInto(nodes[w[1] + 1])[1], Tail(w))

cur == Head(todo)
LevelNodes == LevelOf(NodesOf(cur), walk)
\* the node of the current iteration
CurNode == LevelNodes[Last(walk) + 1]

\* Faulty variant of TextNeedsPath: the negation is lost.
TextNeedsPathInverted(txt) == TextIsStatic(txt)

\* body.rs 136: `if !txt.is_static()`
TextNeedsPath(txt) == ~TextIsStatic(txt)

\* body.rs 151-155
assign_attr_idx(body, attr_idx) ==
    LET new_path == Append(body.current_path, AsU8(attr_idx))
    IN  [body EXCEPT !.attr_paths = Append(@, new_path)]

\* body.rs 151-155: the `idx.set(..)` calls assign_attr_idx makes for the
\* attribute at offset attr_idx of the element at address addr: none, the
\* function is handed the offset only and pushes the path
attr_idx_set(body, b, addr, attr_idx) == << >>

\* body.rs 126: `if !attr.is_static_str_literal()`
AttrNeedsPath(attr) == ~is_static_str_literal(attr)

\* Faulty variant of NextIdx: the index is taken after the path is pushed.
NextIdxAfterPush(body) == Len(body.node_paths) + 1

\* body.rs 161: let idx = self.node_paths.len()
NextIdx(body) == Len(body.node_paths)

\* body.rs 172: self.node_paths.push(self.current_path.clone())
PushNodePath(body) == [body EXCEPT !.node_paths = Append(@, body.current_path)]

\* BodyNode::children: the children of an element; no other node has any
NodeChildren(node) == IF node.kind = "Element" THEN node.children ELSE << >>

\* body.rs 207-213: Some(node) as <<node>>; << >> when an unwrap (or the
\* index path[0]) panics
RECURSIVE GetFrom(_, _, _)
GetFrom(node, path, i) ==
    IF i > Len(path) THEN << node >>
    ELSE LET kids == NodeChildren(node)
         IN  IF path[i] < Len(kids) THEN GetFrom(kids[path[i] + 1], path, i + 1)
             ELSE << >>

get_dyn_node(body, path) ==
    IF Len(path) = 0 THEN << >>
    ELSE IF path[1] < Len(body.roots) THEN GetFrom(body.roots[path[1] + 1], path, 2)
    ELSE << >>

\* body.rs 215-220: the offset indexes el.attributes, the raw list; << >>
\* when it panics (unreachable!(), index out of bounds)
get_dyn_attr(body, path) ==
    IF Len(path) = 0 THEN << >>
    ELSE LET found == get_dyn_node(body, Front(path))
         IN  IF found = << >> THEN << >>
             ELSE IF found[1].kind # "Element" THEN << >>
             ELSE IF Last(path) < Len(found[1].attributes)
                  THEN << found[1].attributes[Last(path) + 1] >>
                  ELSE << >>

IndexInit ==
    /\ doc \in Docs
    /\ todo = BuildOrder(doc, << >>, 1, Len(doc)) \o << << >> >>
    /\ bodies = << >>
    /\ pc = "idle"
    /\ walk = << >>
    /\ idx_writes = << >>
    /\ node_origin = << >>
    /\ attr_origin = << >>
    /\ visits = << >>
    /\ attr_i = 0
    /\ resolved = << >>
    /\ emitted = << >>

\* body.rs 89-102: from_nodes creates the body and calls assign_paths_inner
StartBody ==
    /\ pc = "idle"
    /\ todo # << >>
    /\ bodies' = bodies @@ (cur :> NewBody)
    /\ node_origin' = node_origin @@ (cur :> << >>)
    /\ attr_origin' = attr_origin @@ (cur :> << >>)
    /\ walk' = << 0 >>
    /\ pc' = "head"
    /\ UNCHANGED << visits, doc, todo, idx_writes, resolved, attr_i >>
    /\ UNCHANGED << pvars, cvars, evars >>

\* body.rs 120-121: the next iteration, self.current_path.push(idx as u8)
Push ==
    /\ pc = "head"
    /\ Last(walk) < Len(LevelNodes)
    /\ bodies' = [bodies EXCEPT ![cur].current_path = Append(@, AsU8(Last(walk)))]
    /\ visits' = Append(visits, [body |-> cur, node |-> walk])
    /\ pc' = "visit"
    /\ UNCHANGED << doc, todo, walk, idx_writes, node_origin, attr_origin, resolved, attr_i >>
    /\ UNCHANGED << pvars, cvars, evars >>

\* body.rs 125-129: one iteration of the loop over el.merged_attributes
ScanAttr ==
    /\ pc = "visit"
    /\ WalkInto(CurNode) # << >>
    /\ attr_i < Len(CurNode.merged_attributes)
    /\ IF AttrNeedsPath(CurNode.merged_attributes[attr_i + 1])
       THEN /\ bodies' = [bodies EXCEPT ![cur] = assign_attr_idx(@, attr_i)]
            /\ idx_writes' = idx_writes \o attr_idx_set(bodies[cur], cur, walk, attr_i)
            /\ attr_origin' = [attr_origin EXCEPT ![cur] = Append(@, << walk, attr_i >>)]
       ELSE UNCHANGED << bodies, idx_writes, attr_origin >>
    /\ attr_i' = attr_i + 1
    /\ UNCHANGED << visits, doc, todo, pc, walk, node_origin, resolved >>
    /\ UNCHANGED << pvars, cvars, evars >>

\* body.rs 131: self.assign_paths_inner(&el.children)
Descend ==
    /\ pc = "visit"
    /\ WalkInto(CurNode) # << >>
    /\ attr_i = Len(CurNode.merged_attributes)
    /\ walk' = Append(walk, 0)
    /\ attr_i' = 0
    /\ pc' = "head"
    /\ UNCHANGED << visits, doc, todo, bodies, idx_writes, node_origin, attr_origin, resolved >>
    /\ UNCHANGED << pvars, cvars, evars >>

\* body.rs 162-168: the cell of the node that assign_path_to sets: an
\* IfChain and a RawExpr have the index set on `location`, a ForLoop, a
\* Component and a Text on `dyn_idx`
CellOf(node) ==
    IF node.kind \in { "IfChain", "RawExpr" } THEN "location" ELSE "dyn_idx"

\* body.rs 159-173: assign_path_to for the node of the current iteration
assign_path_to ==
    /\ idx_writes' = Append(idx_writes,
                            [body |-> cur, node |-> walk, cell |-> CellOf(CurNode),
                             idx |-> NextIdx(bodies[cur])])
    /\ bodies' = [bodies EXCEPT ![cur] = PushNodePath(@)]
    /\ node_origin' = [node_origin EXCEPT ![cur] = Append(@, walk)]

\* body.rs 135-139: the Text arm
VisitText ==
    /\ pc = "visit"
    /\ WalkInto(CurNode) = << >>
    /\ CurNode.kind = "Text"
    /\ IF TextNeedsPath(CurNode)
       THEN assign_path_to
       ELSE UNCHANGED << bodies, idx_writes, node_origin >>
    /\ pc' = "pop"
    /\ UNCHANGED << visits, doc, todo, walk, attr_origin, resolved, attr_i >>
    /\ UNCHANGED << pvars, cvars, evars >>

\* body.rs 142-145: the RawExpr | ForLoop | Component | IfChain arm
VisitDynamic ==
    /\ pc = "visit"
    /\ WalkInto(CurNode) = << >>
    /\ CurNode.kind \notin { "Text", "Element" }
    /\ assign_path_to
    /\ pc' = "pop"
    /\ UNCHANGED << visits, doc, todo, walk, attr_origin, resolved, attr_i >>
    /\ UNCHANGED << pvars, cvars, evars >>

\* body.rs 147: self.current_path.pop(), and the loop goes on
Pop ==
    /\ pc = "pop"
    /\ bodies' = [bodies EXCEPT ![cur].current_path = Front(@)]
    /\ walk' = [walk EXCEPT ![Len(walk)] = @ + 1]
    /\ pc' = "head"
    /\ UNCHANGED << visits, doc, todo, idx_writes, node_origin, attr_origin, resolved, attr_i >>
    /\ UNCHANGED << pvars, cvars, evars >>

\* body.rs 131, 148: the loop over an element's children ends and the
\* recursive call returns into the Element arm
ReturnInner ==
    /\ pc = "head"
    /\ Last(walk) = Len(LevelNodes)
    /\ Len(walk) > 1
    /\ walk' = Front(walk)
    /\ pc' = "pop"
    /\ UNCHANGED << visits, doc, todo, bodies, idx_writes, node_origin, attr_origin, resolved, attr_i >>
    /\ UNCHANGED << pvars, cvars, evars >>

\* body.rs 104-107: the outermost call returns; body.roots = nodes
FinishBody ==
    /\ pc = "head"
    /\ Last(walk) = Len(LevelNodes)
    /\ Len(walk) = 1
    /\ bodies' = [bodies EXCEPT ![cur].roots = NodesOf(cur)]
    /\ todo' = Tail(todo)
    /\ walk' = << >>
    /\ pc' = IF Tail(todo) = << >> THEN "done" ELSE "idle"
    /\ UNCHANGED << visits, doc, idx_writes, node_origin, attr_origin, resolved, attr_i >>
    /\ UNCHANGED << pvars, cvars, evars >>

\* body.rs 222-228 (and 276-277): dynamic_nodes() and dynamic_attributes()
\* of one body
Resolve(b) ==
    /\ pc = "done"
    /\ b \in DOMAIN bodies
    /\ resolved' =
         << [body |-> b,
             dyn_nodes |-> [i \in 1..Len(bodies[b].node_paths) |->
                               get_dyn_node(bodies[b], bodies[b].node_paths[i])],
             dyn_attrs |-> [k \in 1..Len(bodies[b].attr_paths) |->
                               get_dyn_attr(bodies[b], bodies[b].attr_paths[k])]] >>
    /\ UNCHANGED << visits, doc, todo, bodies, pc, walk, idx_writes, node_origin, attr_origin, attr_i >>
    /\ UNCHANGED << pvars, cvars, evars >>

\* ------------------------------------------------------------------------
\* Emission: ToTokens for TemplateBody (body.rs 261-303) and for Element
\* (element.rs 246-345)
\* ------------------------------------------------------------------------
\* the slot index a node of body b carries: the last value assign_path_to
\* set on it, in whichever cell, << >> if none was
SlotOf(b, addr) ==
    LET hits == { i \in 1..Len(idx_writes) :
                    idx_writes[i].body = b /\ idx_writes[i].node = addr }
    IN  IF hits = { } THEN << >>
        ELSE << idx_writes[CHOOSE i \in hits : \A j \in hits : j <= i].idx >>

IsPrefix(p, q) == Len(p) <= Len(q) /\ SubSeq(q, 1, Len(p)) = p

\* pre-order (lexicographic) order of paths: an ancestor comes before its
\* descendants, an earlier sibling subtree before a later one
LexLess(p, q) ==
    \/ Len(p) < Len(q) /\ IsPrefix(p, q)
    \/ \E i \in 1..Len(p) :
         /\ i <= Len(q)
         /\ SubSeq(p, 1, i - 1) = SubSeq(q, 1, i - 1)
         /\ p[i] < q[i]

\* element.rs 312-328, `dyn_idx.get()`: the value of the node's dyn_idx
\* cell, which is the last index set on that cell and the default 0 when
\* none was; an index set on `location` is not read
DynIdx(b, addr) ==
    LET hits == { i \in 1..Len(idx_writes) :
                    /\ idx_writes[i].body = b
                    /\ idx_writes[i].node = addr
                    /\ "cell" \in DOMAIN idx_writes[i]
                    /\ idx_writes[i].cell = "dyn_idx" }
    IN  IF hits = { } THEN 0
        ELSE idx_writes[CHOOSE i \in hits : \A j \in hits : j <= i].idx

\* element.rs 261-299: one merged attribute of the skeleton; a static
\* attribute is rendered inline, any other reaches todo!()
AttrTokens(attr) ==
    IF is_static_str_literal(attr)
    THEN [panic |-> FALSE, kind |-> "Static", name |-> attr.name, value |-> attr.value.segs,
          id |-> 0]
    ELSE [panic |-> TRUE, kind |-> "todo", name |-> attr.name, value |-> << >>, id |-> 0]

\* element.rs 246-345 (ElementTokens) and 305-331 (NodeTokens, the child
\* closure): the skeleton of the node at address addr of body b.  panic is
\* set when the rendering reaches todo!().
RECURSIVE ElementTokens(_, _, _), NodeTokens(_, _, _)
ElementTokens(el, b, addr) ==
    LET attrs == [i \in 1..Len(el.merged_attributes) |-> AttrTokens(el.merged_attributes[i])]
        kids  == [i \in 1..Len(el.children) |->
                     NodeTokens(el.children[i], b, Append(addr, i - 1))]
    IN  [panic |-> \/ \E i \in 1..Len(attrs) : attrs[i].panic
                   \/ \E i \in 1..Len(kids) : kids[i].panic,
         kind |-> "Element", attrs |-> attrs, children |-> kids, text |-> << >>, id |-> 0]

NodeTokens(node, b, addr) ==
    IF node.kind = "Element" THEN ElementTokens(node, b, addr)
    ELSE IF node.kind = "Text" /\ TextIsStatic(node)
    THEN [panic |-> FALSE, kind |-> "Text", attrs |-> << >>, children |-> << >>,
          text |-> node.input, id |-> 0]
    ELSE IF node.kind = "Text"
    THEN [panic |-> FALSE, kind |-> "DynamicText", attrs |-> << >>, children |-> << >>,
          text |-> << >>, id |-> DynIdx(b, addr)]
    ELSE [panic |-> FALSE, kind |-> "Dynamic", attrs |-> << >>, children |-> << >>,
          text |-> << >>, id |-> DynIdx(b, addr)]

\* ToTokens for BodyNode, which `#roots` goes through: a root is rendered
\* like a child of an element
RootTokens(node, b, addr) == NodeTokens(node, b, addr)

\* Component::key(): the formatted string of the component's key field
ComponentKey(comp) == comp.key

\* Faulty variant of implicit_key: the number of roots is not looked at.
ImplicitKeyOfFirstRoot(body) ==
    IF Len(body.roots) = 0 THEN << >>
    ELSE IF body.roots[1].kind = "Element" THEN body.roots[1].key
    ELSE IF body.roots[1].kind = "Component" THEN ComponentKey(body.roots[1])
    ELSE << >>

\* body.rs 198-205
implicit_key(body) ==
    IF Len(body.roots) = 0 THEN << >>
    ELSE IF body.roots[1].kind = "Element" /\ Len(body.roots) = 1 THEN body.roots[1].key
    ELSE IF body.roots[1].kind = "Component" /\ Len(body.roots) = 1
    THEN ComponentKey(body.roots[1])
    ELSE << >>

\* body.rs 274-301: the tokens of a body with roots; panic when a root's
\* skeleton or a path lookup panics, and nothing is appended then
TemplateTokens(b) ==
    LET body  == bodies[b]
        roots == [i \in 1..Len(body.roots) |-> RootTokens(body.roots[i], b, << i - 1 >>)]
        dyn_nodes == [i \in 1..Len(body.node_paths) |-> get_dyn_node(body, body.node_paths[i])]
        dyn_attrs == [k \in 1..Len(body.attr_paths) |-> get_dyn_attr(body, body.attr_paths[k])]
    IN  [panic |-> \/ \E i \in 1..Len(roots) : roots[i].panic
                   \/ \E i \in 1..Len(dyn_nodes) : dyn_nodes[i] = << >>
                   \/ \E k \in 1..Len(dyn_attrs) : dyn_attrs[k] = << >>,
         name |-> body.template_idx,
         roots |-> roots,
         node_paths |-> body.node_paths,
         attr_paths |-> body.attr_paths]

\* body.rs 262-272: to_tokens of body b begins; an empty body is
\* `Option::<VNode>::None`, otherwise the key tokens are computed
EmitKey(b) ==
    /\ pc = "done"
    /\ ~(emitted # << >> /\ emitted[1].at = "key")
    /\ IF Len(bodies[b].roots) = 0
       THEN emitted' = << [body |-> b, at |-> "none", key_tokens |-> << >>, template |-> << >>] >>
       ELSE emitted' = << [body |-> b, at |-> "key",
                           key_tokens |-> implicit_key(bodies[b]), template |-> << >>] >>
    /\ UNCHANGED ivars
    /\ UNCHANGED << pvars, cvars >>

\* body.rs 274-301: the template is appended, or a panic unwinds the call
EmitTemplate ==
    /\ emitted # << >>
    /\ emitted[1].at = "key"
    /\ LET t == TemplateTokens(emitted[1].body)
       IN  emitted' = IF t.panic
                      THEN << [emitted[1] EXCEPT !.at = "panic"] >>
                      ELSE << [emitted[1] EXCEPT !.at = "done", !.template = << t >>] >>
    /\ UNCHANGED ivars
    /\ UNCHANGED << pvars, cvars >>

\* ------------------------------------------------------------------------
\* Component::parse and its validation steps (component.rs 44-221)
\* ------------------------------------------------------------------------
\* most fields of a generated component
MaxFields == 3

\* A path segment: its identifier and its PathArguments ("None",
\* "AngleBracketed" or "Parenthesized").
Segment(ident, arguments) == [ident |-> ident, arguments |-> arguments]

\* AttributeName::Known(ident); Custom(..) is AttributeName::Custom
Known(id) == [kind |-> "Known", id |-> id]
\* AttributeValue::AttrIfmt(ifmt), and a value that is another expression
AttrIfmt(segs) == [kind |-> "AttrIfmt", segs |-> segs]
AttrExpr       == [kind |-> "AttrExpr", segs |-> << "e" >>]
\* Attribute { name, value, .. }
Field(name, value) == [name |-> name, value |-> value]
SpreadField == Field([kind |-> "Spread", id |-> << ".", "." >>], SpreadValue)

\* char::is_lowercase, over the letters the identifiers are written with
LowercaseLetters ==
    { "a", "b", "c", "d", "e", "f", "g", "h", "i", "j", "k", "l", "m",
      "n", "o", "p", "q", "r", "s", "t", "u", "v", "w", "x", "y", "z" }
is_lowercase(c) == c \in LowercaseLetters
\* str::contains('_')
ContainsUnderscore(ident) == \E i \in 1..Len(ident) : ident[i] = "_"

\* A diagnostic: its message and the span it is attached to.
Diagnostic(message, span) == [message |-> message, span |-> span]
NameCase     == "Component names must be uppercase, contain an underscore, or abe a path."
PathArgs     == "Component names must not have path arguments."
LastArgs     == "Component names must have no arguments or angle bracketed arguments."
SpreadLast   == "Spread attributes must be the last attribute in the component."
KeyStatic    == "Key must not be a static string."
KeyForm      == "Key must be in the form of a formatted string"
CustomField  == "Custom attributes are not supported for Components."
DuplicateField == "Duplicate attribute found."

\* What a validation step does: the diagnostics it pushes, in order, or a
\* panic (an unwrap on None, an index out of bounds, a usize underflow).
Pushes(ds) == [panic |-> FALSE, push |-> ds]
Panics == [panic |-> TRUE, push |-> << >>]

\* component.rs 107-145
validate_path(path) ==
    IF Len(path) = 0 THEN Panics
    ELSE IF Len(path) = 1 /\ Len(path[1].ident) = 0 THEN Panics
    ELSE Pushes(
        (IF /\ Len(path) = 1
            /\ is_lowercase(path[1].ident[1])
            /\ ~ContainsUnderscore(path[1].ident)
         THEN << Diagnostic(NameCase, << "segment", 0 >>) >> ELSE << >>)
        \o (IF \E i \in 1..(Len(path) - 1) : path[i].arguments # "None"
            THEN << Diagnostic(PathArgs, << "path" >>) >> ELSE << >>)
        \o (IF path[Len(path)].arguments \notin { "None", "AngleBracketed" }
            THEN << Diagnostic(LastArgs, << "path" >>) >> ELSE << >>))

\* fields.iter().position(|attr| matches!(attr.value, AttributeValue::Spread(_)))
SpreadPosition(fs) ==
    LET hits == { i \in 1..Len(fs) : fs[i].value.kind = "Spread" }
    IN  IF hits = { } THEN << >>
        ELSE << (CHOOSE i \in hits : \A j \in hits : i <= j) - 1 >>

\* Faulty variant of validate_spread: the last spread is looked at, not
\* the first.
validate_spread_last(fs) ==
    LET hits == { i \in 1..Len(fs) : fs[i].value.kind = "Spread" }
    IN  IF hits = { } THEN Pushes(<< >>)
        ELSE LET spread_idx == (CHOOSE i \in hits : \A j \in hits : j <= i) - 1
             IN  IF spread_idx # Len(fs) - 1
                 THEN Pushes(<< Diagnostic(SpreadLast, << "field", spread_idx >>) >>)
                 ELSE Pushes(<< >>)

\* component.rs 148-165
validate_spread(fs) ==
    LET spread_idx == SpreadPosition(fs)
    IN  IF spread_idx # << >>
        THEN IF spread_idx[1] # Len(fs) - 1
             THEN Pushes(<< Diagnostic(SpreadLast, << "field", spread_idx[1] >>) >>)
             ELSE Pushes(<< >>)
        ELSE Pushes(<< >>)

\* component.rs 189-193: the first field named `key`, as <<field>>, or << >>
get_key(fs) ==
    LET hits == { i \in 1..Len(fs) : fs[i].name.kind = "Known" /\ fs[i].name.id = KeyName }
    IN  IF hits = { } THEN << >>
        ELSE << fs[CHOOSE i \in hits : \A j \in hits : i <= j] >>

\* Faulty variant of validate_key: a static key ends the parse, as
\* invalid_key! does in Element::parse.
validate_key_hard(fs) ==
    LET found == get_key(fs)
    IN  IF found = << >> THEN Pushes(<< >>)
        ELSE IF found[1].value.kind = "AttrIfmt" /\ IfmtIsStatic(found[1].value.segs)
        THEN Panics
        ELSE IF found[1].value.kind = "AttrIfmt" THEN Pushes(<< >>)
        ELSE Pushes(<< Diagnostic(KeyForm, << "value", KeyName >>) >>)

\* Faulty variant of validate_key: a static key is let through.
validate_key_lenient(fs) ==
    LET found == get_key(fs)
    IN  IF found = << >> THEN Pushes(<< >>)
        ELSE IF found[1].value.kind = "AttrIfmt" THEN Pushes(<< >>)
        ELSE Pushes(<< Diagnostic(KeyForm, << "value", KeyName >>) >>)

\* component.rs 170-187
validate_key(fs) ==
    LET found == get_key(fs)
    IN  IF found = << >> THEN Pushes(<< >>)
        ELSE IF found[1].value.kind = "AttrIfmt" /\ IfmtIsStatic(found[1].value.segs)
        THEN Pushes(<< Diagnostic(KeyStatic, << "value", KeyName >>) >>)
        ELSE IF found[1].value.kind = "AttrIfmt" THEN Pushes(<< >>)
        ELSE Pushes(<< Diagnostic(KeyForm, << "value", KeyName >>) >>)

\* Faulty variant of FieldsFrom: a name is never put into `seen`.
RECURSIVE FieldsFromForgetful(_, _, _)
FieldsFromForgetful(fs, i, seen) ==
    IF i > Len(fs) THEN << >>
    ELSE IF fs[i].name.kind = "Custom"
    THEN << Diagnostic(CustomField, << "field", i - 1 >>) >> \o FieldsFromForgetful(fs, i + 1, seen)
    ELSE FieldsFromForgetful(fs, i + 1, seen)

\* component.rs 202-220: the loop of validate_fields from field i on, with
\* the set `seen`
RECURSIVE FieldsFrom(_, _, _)
FieldsFrom(fs, i, seen) ==
    IF i > Len(fs) THEN << >>
    ELSE IF fs[i].name.kind = "Custom"
    THEN << Diagnostic(CustomField, << "field", i - 1 >>) >> \o FieldsFrom(fs, i + 1, seen)
    ELSE IF fs[i].name.kind = "Known"
    THEN IF fs[i].name.id \notin seen
         THEN FieldsFrom(fs, i + 1, seen \cup { fs[i].name.id })
         ELSE << Diagnostic(DuplicateField, << "field", i - 1 >>) >>
              \o FieldsFrom(fs, i + 1, seen)
    ELSE FieldsFrom(fs, i + 1, seen)

\* component.rs 199-221
validate_fields(fs) == Pushes(FieldsFrom(fs, 1, { }))

\* diagnostics.rs 16-18, once for each diagnostic of a step
PushAll(diags, ds) == diags \o ds

\* diagnostics.rs 20-22: Diagnostics::extend
extend(diags, ds) == diags \o ds

\* component.rs 259-264: the expression of the first spread field, as
\* <<its position>>, or << >>
manual_props(fs) == SpreadPosition(fs)

\* component.rs 266-296: the (name, value) pairs of the known fields other
\* than `key`, in declaration order
make_field_idents(fs) ==
    LET kept == SelectSeq(fs, LAMBDA f :
                    /\ f.name.kind = "Known"
                    /\ f.name.id # KeyName
                    /\ f.value.kind # "Spread")
    IN  [i \in 1..Len(kept) |->
            [name |-> kept[i].name.id,
             value |-> IF kept[i].value.kind = "AttrIfmt"
                       THEN [kind |-> "to_string", segs |-> kept[i].value.segs]
                       ELSE kept[i].value]]

\* body.rs 262-301: the tokens of a whole body, for `#children`
BodyTokens(b) ==
    IF Len(bodies[b].roots) = 0
    THEN [panic |-> FALSE, key_tokens |-> << >>, template |-> << >>]
    ELSE LET t == TemplateTokens(b)
         IN  [panic |-> t.panic, key_tokens |-> implicit_key(bodies[b]),
              template |-> IF t.panic THEN << >> ELSE << t >>]

\* component.rs 223-257: the props; children names the body of the
\* component's children
collect_props(fs, children) ==
    LET manual == manual_props(fs)
        start == IF manual # << >>
                 THEN << [op |-> "let __manual_props", name |-> << >>, value |-> manual] >>
                 ELSE << [op |-> "fc_to_builder", name |-> << >>, value |-> << >>] >>
        idents == make_field_idents(fs)
        sets == [i \in 1..Len(idents) |->
                    [op |-> IF manual = << >> THEN "builder call" ELSE "assignment",
                     name |-> idents[i].name, value |-> idents[i].value]]
        kids == IF Len(bodies[children].roots) # 0
                THEN << [op |-> "children", name |-> << >>, value |-> BodyTokens(children)] >>
                ELSE << >>
        end == << [op |-> IF manual = << >> THEN "build" ELSE "__manual_props",
                   name |-> << >>, value |-> << >>] >>
    IN  [panic |-> Len(kids) # 0 /\ kids[1].value.panic,
         toks |-> start \o sets \o kids \o end]

\* diagnostics.rs 45-51: every diagnostic of the list, in order
DiagnosticsTokens(diags) == [i \in 1..Len(diags) |-> diags[i]]

\* identifiers of the generated components
Comp      == << "C", "o", "m", "p" >>
LowerComp == << "c", "o", "m", "p" >>
UnderComp == << "m", "y", "_", "c" >>
PropName  == << "p", "r", "o", "p" >>

NameChoices ==
    { << Segment(Comp, "None") >>,
      << Segment(LowerComp, "None") >>,
      << Segment(UnderComp, "None") >>,
      << Segment(Comp, "AngleBracketed") >>,
      << Segment(Comp, "Parenthesized") >>,
      << Segment(LowerComp, "Parenthesized") >>,
      << Segment(LowerComp, "None"), Segment(Comp, "None") >>,
      << Segment(LowerComp, "AngleBracketed"), Segment(Comp, "None") >> }
PlainNames == { << Segment(Comp, "None") >>, << Segment(LowerComp, "None") >> }

PropA == Field(Known(PropName), AttrIfmt(<< "a" >>))
PropB == Field(Known(PropName), AttrIfmt(<< "b" >>))
KeyStaticField == Field(Known(KeyName), AttrIfmt(<< "k" >>))
KeyInterpField == Field(Known(KeyName), AttrIfmt(<< "k", Interp >>))
KeyExprField   == Field(Known(KeyName), AttrExpr)
CustomClassField == Field(Custom(ClassName), AttrIfmt(<< "a" >>))
FieldChoices ==
    { PropA, PropB, KeyStaticField, KeyInterpField, KeyExprField, CustomClassField, SpreadField }

\* the field lists of exactly n fields
RECURSIVE FieldLists(_)
FieldLists(n) ==
    IF n = 0 THEN { << >> }
    ELSE { Append(fs, f) : fs \in FieldLists(n - 1), f \in FieldChoices }

\* the fields of the tests `parses` and `rejects` (component.rs 311-360)
ParsesFields  == << KeyInterpField, PropA, SpreadField >>
RejectsFields == << KeyStaticField, PropA, PropB, SpreadField, SpreadField >>

\* every field list under the plain names, every name over a few lists
ComponentInputs ==
    { [name |-> n, fields |-> fs] :
        n \in PlainNames, fs \in UNION { FieldLists(k) : k \in 0..MaxFields } }
    \cup { [name |-> n, fields |-> fs] :
             n \in NameChoices, fs \in { << >>, ParsesFields, RejectsFields } }

\* the children of the generated components
ChildrenChoices ==
    { << >>,
      << Elem(<< >>, << StaticText >>) >>,
      << DynText, RawExprNode >>,
      << Elem(RichAttrs, << StaticText >>), RawExprNode >> }

ComponentParked ==
    /\ c_name = << >>
    /\ fields = << >>
    /\ diagnostics = << >>
    /\ cpc = "none"
    /\ c_tokens = << >>

\* component.rs 46-52: the RsxBlock is parsed; its children go to from_nodes
InitComponent ==
    /\ \E input \in ComponentInputs : c_name = input.name /\ fields = input.fields
    /\ diagnostics = << >>
    /\ cpc = "children"
    /\ c_tokens = << >>
    /\ doc \in ChildrenChoices
    /\ todo = BuildOrder(doc, << >>, 1, Len(doc)) \o << << >> >>
    /\ bodies = << >>
    /\ pc = "idle"
    /\ walk = << >>
    /\ idx_writes = << >>
    /\ node_origin = << >>
    /\ attr_origin = << >>
    /\ visits = << >>
    /\ attr_i = 0
    /\ resolved = << >>
    /\ emitted = << >>
    /\ ParseInit

\* component.rs 54-62: from_nodes(children) has returned, the component is
\* built with fresh diagnostics
NewComponent ==
    /\ cpc = "children"
    /\ pc = "done"
    /\ diagnostics' = << >>
    /\ cpc' = "validate_path"
    /\ UNCHANGED << c_name, fields, c_tokens >>
    /\ UNCHANGED << pvars, ivars, evars >>

\* The end of a validation step: its diagnostics are pushed and the next
\* step follows, or its panic unwinds Component::parse.
Validated(r, next) ==
    /\ IF r.panic
       THEN /\ cpc' = "panic"
            /\ UNCHANGED diagnostics
       ELSE /\ diagnostics' = PushAll(diagnostics, r.push)
            /\ cpc' = next
    /\ UNCHANGED << c_name, fields, c_tokens >>
    /\ UNCHANGED << pvars, ivars, evars >>

\* component.rs 64
ValidatePath ==
    /\ cpc = "validate_path"
    /\ Validated(validate_path(c_name), "validate_fields")

\* component.rs 65
ValidateFields ==
    /\ cpc = "validate_fields"
    /\ Validated(validate_fields(fields), "validate_key")

\* component.rs 66
ValidateKey ==
    /\ cpc = "validate_key"
    /\ Validated(validate_key(fields), "validate_spread")

\* component.rs 67 and 69: the last check, then Ok(component)
ValidateSpread ==
    /\ cpc = "validate_spread"
    /\ Validated(validate_spread(fields), "ok")

\* the longest vector a caller hands to Diagnostics::extend
MaxExtended == 1

\* the vectors handed to extend: diagnostics made by the holder of the
\* component, worded like one of the component's own; extend(a) followed by
\* extend(b) leaves what extend(a \o b) leaves, so one call stands for any
\* number of them
ExtendChoices ==
    { [i \in 1..n |-> Diagnostic(DuplicateField, << "caller" >>)] : n \in 1..MaxExtended }

\* diagnostics.rs 20-22, called on the pub field `diagnostics` of the
\* component that Component::parse returned (component.rs 41)
DiagnosticsExtend ==
    /\ cpc = "ok"
    /\ \E ds \in ExtendChoices : diagnostics' = extend(diagnostics, ds)
    /\ cpc' = "extended"
    /\ UNCHANGED << c_name, fields, c_tokens >>
    /\ UNCHANGED << pvars, ivars, evars >>

\* component.rs 73-98: the props are collected, then the diagnostics and
\* the props are appended; a panic in the props appends nothing
ComponentToTokens ==
    /\ cpc \in { "ok", "extended" }
    /\ LET props == collect_props(fields, << >>)
       IN  IF props.panic
           THEN /\ cpc' = "emit_panic"
                /\ UNCHANGED c_tokens
           ELSE /\ cpc' = "emitted"
                /\ c_tokens' = << [diagnostics |-> DiagnosticsTokens(diagnostics),
                                   props |-> props.toks,
                                   name |-> c_name,
                                   fn_name |-> c_name[Len(c_name)].ident] >>
    /\ UNCHANGED << c_name, fields, diagnostics >>
    /\ UNCHANGED << pvars, ivars, evars >>

Init == IndexInit /\ ParseInit /\ ComponentParked

Next ==
    \/ StartBody
    \/ Push
    \/ ScanAttr
    \/ Descend
    \/ VisitText
    \/ VisitDynamic
    \/ Pop
    \/ ReturnInner
    \/ FinishBody
    \/ \E b \in DOMAIN bodies : Resolve(b)
    \/ \E b \in DOMAIN bodies : EmitKey(b)
    \/ EmitTemplate

Spec == Init /\ [][Next]_vars

\* Element::parse alone: one element is parsed, nothing is indexed.
IndexParked ==
    /\ doc = << >>
    /\ todo = << >>
    /\ bodies = << >>
    /\ pc = "idle"
    /\ walk = << >>
    /\ idx_writes = << >>
    /\ node_origin = << >>
    /\ attr_origin = << >>
    /\ visits = << >>
    /\ attr_i = 0
    /\ resolved = << >>
    /\ emitted = << >>

InitParse == ParseInit /\ IndexParked /\ ComponentParked

SpecParse == InitParse /\ [][ParseNext]_vars

\* Component::parse and Component::to_tokens of one component.
NextComponent ==
    \/ StartBody
    \/ Push
    \/ ScanAttr
    \/ Descend
    \/ VisitText
    \/ VisitDynamic
    \/ Pop
    \/ ReturnInner
    \/ FinishBody
    \/ NewComponent
    \/ ValidatePath
    \/ ValidateFields
    \/ ValidateKey
    \/ ValidateSpread
    \/ DiagnosticsExtend
    \/ ComponentToTokens

SpecComponent == InitComponent /\ [][NextComponent]_vars

\* ------------------------------------------------------------------------
\* Properties of the indexing pass (specification Spec)
\* ------------------------------------------------------------------------
\* from_nodes has returned the body named b
Finished(b) == b \in DOMAIN bodies /\ (pc \in { "idle", "done" } \/ b # cur)

\* the addresses of the nodes of a node list that lie in the same body:
\* reached through the children of elements only
RECURSIVE Addrs(_, _)
Addrs(nodes, prefix) ==
    UNION { { Append(prefix, i - 1) }
            \cup (IF nodes[i].kind = "Element"
                  THEN Addrs(nodes[i].children, Append(prefix, i - 1))
                  ELSE { })
            : i \in 1..Len(nodes) }

OwnAddrs(b) == Addrs(NodesOf(b), << >>)

\* a dynamic node: non-static Text, RawExpr, ForLoop, Component or IfChain
IsDynamicKind(node) ==
    \/ node.kind \in { "RawExpr", "ForLoop", "Component", "IfChain" }
    \/ node.kind = "Text" /\ \E i \in 1..Len(node.input) : node.input[i] = Interp

OwnDynamic(b) == { a \in OwnAddrs(b) : IsDynamicKind(NodeAt(NodesOf(b), a)) }

\* the idx.set(..) calls on the nodes of body b, in order
WritesOf(b) == SelectSeq(idx_writes, LAMBDA w : w.body = b /\ "attr" \notin DOMAIN w)

\* C1 (density): once from_nodes has returned a body, the indices that
\* assign_path_to has written onto its nodes are exactly 0 .. len(node_paths)-1,
\* each written once and each onto a different node.
C1_Density ==
    \A b \in DOMAIN bodies :
        Finished(b) =>
            LET ws == WritesOf(b)
                n  == Len(bodies[b].node_paths)
            IN  /\ Len(ws) = n
                /\ { ws[i].idx : i \in 1..Len(ws) } = 0..(n - 1)
                /\ \A i, j \in 1..Len(ws) :
                     i # j => ws[i].idx # ws[j].idx /\ ws[i].node # ws[j].node

\* C1 witness: a finished body with three dynamic nodes.
C1_Witness ==
    /\ pc = "done"
    /\ Len(bodies[<< >>].node_paths) = 3
    /\ Len(WritesOf(<< >>)) = 3

\* C2 (path resolution round trip): every path of node_paths resolves, by
\* get_dyn_node, to a dynamic node whose slot index is the position of the
\* path in node_paths.
C2_RoundTrip ==
    resolved # << >> =>
        LET r == resolved[1]
        IN  \A i \in 1..Len(r.dyn_nodes) :
              /\ r.dyn_nodes[i] # << >>
              /\ IsDynamicKind(r.dyn_nodes[i][1])
              /\ SlotOf(r.body, bodies[r.body].node_paths[i]) = << i - 1 >>

\* C3 (attribute path resolution): every path of attr_paths resolves, by
\* get_dyn_attr, to the non-static merged attribute the scan recorded it for.
C3_AttrResolution ==
    resolved # << >> =>
        LET r == resolved[1]
        IN  \A k \in 1..Len(r.dyn_attrs) :
              LET o  == attr_origin[r.body][k]
                  el == NodeAt(bodies[r.body].roots, o[1])
              IN  /\ r.dyn_attrs[k] = << el.merged_attributes[o[2] + 1] >>
                  /\ ~is_static_str_literal(r.dyn_attrs[k][1])

\* C4 (traversal order): index i belongs to the i-th dynamic node in
\* pre-order, node_paths is strictly increasing in pre-order path order, and
\* attr_paths is ordered by the element's pre-order position, then by the
\* attribute offset.
C4_TraversalOrder ==
    \A b \in DOMAIN bodies :
        Finished(b) =>
            LET np == bodies[b].node_paths
                ap == bodies[b].attr_paths
                no == node_origin[b]
            IN  /\ { no[i] : i \in 1..Len(no) } = OwnDynamic(b)
                /\ \A i \in 1..Len(no) : SlotOf(b, no[i]) = << i - 1 >>
                /\ \A i, j \in 1..Len(no) : i < j => LexLess(no[i], no[j])
                /\ \A i, j \in 1..Len(np) : i < j => LexLess(np[i], np[j])
                /\ \A i, j \in 1..Len(ap) :
                     i < j => \/ LexLess(Front(ap[i]), Front(ap[j]))
                              \/ /\ Front(ap[i]) = Front(ap[j])
                                 /\ Last(ap[i]) < Last(ap[j])

\* C5 (byte range): no path component recorded in node_paths or attr_paths
\* is a truncated offset: every recorded path is the sequence of offsets of
\* the node (and the offset of the attribute) it was recorded for.
C5_NoTruncation ==
    \A b \in DOMAIN bodies :
        /\ \A i \in 1..Len(bodies[b].node_paths) :
             bodies[b].node_paths[i] = node_origin[b][i]
        /\ \A k \in 1..Len(bodies[b].attr_paths) :
             bodies[b].attr_paths[k] = Append(attr_origin[b][k][1], attr_origin[b][k][2])

\* C6 (body boundary): in a finished body every ForLoop, IfChain, Component
\* and RawExpr of the body is recorded as exactly one dynamic node, every
\* node and attribute entry was recorded for a node of the body itself
\* (never for one inside a nested body), and each nested body has been
\* built as a body of its own whose indices start at 0.
C6_BodyBoundary ==
    \A b \in DOMAIN bodies :
        Finished(b) =>
            LET no == node_origin[b]
                ao == attr_origin[b]
            IN  /\ \A i \in 1..Len(no) : no[i] \in OwnAddrs(b)
                /\ \A k \in 1..Len(ao) : ao[k][1] \in OwnAddrs(b)
                /\ Len(bodies[b].node_paths) = Cardinality(OwnDynamic(b))
                /\ \A a \in OwnAddrs(b) :
                     LET n == NodeAt(NodesOf(b), a)
                     IN  /\ n.kind \in NestedKinds \cup { "RawExpr" } =>
                              Cardinality({ i \in 1..Len(no) : no[i] = a }) = 1
                         /\ n.kind \in NestedKinds =>
                              /\ (b \o a) \in DOMAIN bodies
                              /\ Len(bodies[b \o a].node_paths)
                                   = Cardinality(OwnDynamic(b \o a))
                              /\ Len(WritesOf(b \o a)) > 0 => WritesOf(b \o a)[1].idx = 0

\* `for x in 0..3 { div { "item" } }`
LoopExample == << NestedNode("ForLoop", << Elem(<< >>, << StaticText >>) >>) >>

\* C6 witness: the loop example, indexed: one node path in the outer body
\* at index 0, none in the body of the loop.
C6_Witness ==
    /\ pc = "done"
    /\ doc = LoopExample
    /\ bodies[<< >>].node_paths = << << 0 >> >>
    /\ idx_writes = << [body |-> << >>, node |-> << 0 >>, cell |-> "dyn_idx", idx |-> 0] >>
    /\ bodies[<< 0 >>].node_paths = << >>
    /\ bodies[<< 0 >>].attr_paths = << >>

\* an element whose merged attributes are all static string literals and
\* whose descendants are only such elements and static texts; a static text
RECURSIVE AllStatic(_)
AllStatic(node) ==
    CASE node.kind = "Text" -> ~IsDynamicKind(node)
      [] node.kind = "Element" ->
            /\ \A i \in 1..Len(node.merged_attributes) :
                 is_static_str_literal(node.merged_attributes[i])
            /\ \A i \in 1..Len(node.children) : AllStatic(node.children[i])
      [] OTHER -> FALSE

\* C7 (static classification): in a finished body a Text node has a
\* node-path entry iff its string has an interpolated segment, and an
\* all-static element has no node-path and no attribute-path entry, neither
\* for itself nor for anything below it.
C7_StaticClassification ==
    \A b \in DOMAIN bodies :
        Finished(b) =>
            LET no == node_origin[b]
                ao == attr_origin[b]
            IN  /\ Len(no) = Len(bodies[b].node_paths)
                /\ Len(ao) = Len(bodies[b].attr_paths)
                /\ \A a \in OwnAddrs(b) :
                     LET n == NodeAt(NodesOf(b), a)
                     IN  /\ n.kind = "Text" =>
                              ((\E i \in 1..Len(no) : no[i] = a)
                                 <=> (\E s \in 1..Len(n.input) : n.input[s] = Interp))
                         /\ (n.kind = "Element" /\ AllStatic(n)) =>
                              /\ \A i \in 1..Len(no) : ~IsPrefix(a, no[i])
                              /\ \A k \in 1..Len(ao) : ~IsPrefix(a, ao[k][1])

\* C7 witness: a static element (static attribute, static text child)
\* followed by an interpolated text: the only entry is the text's.
C7_Witness ==
    /\ pc = "done"
    /\ doc = << Elem(<< StaticAttr >>, << StaticText >>), DynText >>
    /\ bodies[<< >>].node_paths = << << 1 >> >>
    /\ bodies[<< >>].attr_paths = << >>

\* ------------------------------------------------------------------------
\* Properties of the merge loop (specification SpecParse)
\* ------------------------------------------------------------------------
\* the raw attributes the merge loop has consumed
Consumed == SubSeq(attributes, 1, merge_i)

\* the positions of a raw list that hold the first occurrence of a name
\* (a spread has no name and is always a first occurrence)
FirstOccurrences(raw) ==
    { i \in 1..Len(raw) : \A j \in 1..(i - 1) : ~matches_attr_name(raw[j], raw[i]) }

\* the k-th smallest element of a set of numbers
Nth(S, k) == CHOOSE i \in S : Cardinality({ j \in S : j < i }) = k - 1

\* C8 (merge shape): the merged list holds exactly one entry for each
\* distinct name of the raw attributes merged so far, in the order of the
\* names' first occurrences.
C8_MergeShape ==
    epc \in { "merge", "ok" } =>
        LET raw == Consumed
            F   == FirstOccurrences(raw)
        IN  /\ Len(merged_attributes) = Cardinality(F)
            /\ \A k \in 1..Len(merged_attributes) :
                 /\ merged_attributes[k].type = raw[Nth(F, k)].type
                 /\ merged_attributes[k].name = raw[Nth(F, k)].name
            /\ \A i \in 1..Len(raw) :
                 raw[i].type = "Named" =>
                     Cardinality({ k \in 1..Len(merged_attributes) :
                                     /\ merged_attributes[k].type = "Named"
                                     /\ merged_attributes[k].name = raw[i].name }) = 1

\* C8 witness: three raw attributes, the third repeating the name of the
\* first, merged into two entries.
C8_Witness ==
    /\ epc = "ok"
    /\ Len(attributes) = 3
    /\ matches_attr_name(attributes[1], attributes[3])
    /\ ~matches_attr_name(attributes[1], attributes[2])
    /\ Len(merged_attributes) = 2

\* C9 (first wins): an iteration of the merge loop whose attribute matches
\* an existing entry it cannot be combined with leaves the merged list as
\* it is, drops the attribute and goes on without an error.
C9_FirstWins ==
    [][ ( /\ epc = "merge"
          /\ merge_i < Len(attributes)
          /\ \E i \in 1..Len(merged_attributes) :
               /\ matches_attr_name(merged_attributes[i], attributes[merge_i + 1])
               /\ \A j \in 1..(i - 1) :
                    ~matches_attr_name(merged_attributes[j], attributes[merge_i + 1])
               /\ try_combine(merged_attributes[i], attributes[merge_i + 1]) = << >> )
        => ( /\ merged_attributes' = merged_attributes
             /\ merge_i' = merge_i + 1
             /\ epc' = "merge" ) ]_vars

\* C9 witness: the second attribute matched the first, could not be
\* combined with it and was dropped; the element was built.
C9_Witness ==
    /\ epc = "ok"
    /\ Len(attributes) = 2
    /\ matches_attr_name(attributes[1], attributes[2])
    /\ try_combine(attributes[1], attributes[2]) = << >>
    /\ attributes[1] # attributes[2]
    /\ merged_attributes = << attributes[1] >>

\* C10 (merge idempotence): merging the merged list of a parsed element
\* again yields the same list.
C10_MergeIdempotent ==
    epc = "ok" => MergeAttributes(merged_attributes) = merged_attributes

\* C10 witness: an element whose merge combined two attributes and kept
\* two entries.
C10_Witness ==
    /\ epc = "ok"
    /\ Len(attributes) = 3
    /\ Len(merged_attributes) = 2
    /\ \E k \in 1..2 : Len(merged_attributes[k].value.segs) = 2

\* ------------------------------------------------------------------------
\* Errors of Element::parse (specification SpecParse)
\* ------------------------------------------------------------------------
\* the event attribute `name: handler` that a step pushes onto the raw list
\* the step pushes a declaration of the built-in attribute `name`, in either
\* form (`name: handler` or the shorthand `name`)
PushesEvent(name) ==
    /\ Len(attributes') = Len(attributes) + 1
    /\ attributes'[Len(attributes')].name.kind = "BuiltIn"
    /\ attributes'[Len(attributes')].name.id = name

\* the raw list declares the built-in attribute `name`
DeclaresEvent(attrs, name) ==
    \E i \in 1..Len(attrs) :
        attrs[i].name.kind = "BuiltIn" /\ attrs[i].name.id = name

\* the event attributes: the built-in names starting with `on`
EventNames == { n \in IdentNames \cup ShorthandNames : StartsWithOn(n) }

\* C11 (duplicate event handler): an event attribute (a built-in name
\* starting with `on`) is only ever pushed when the raw list does not
\* declare it yet; the second declaration ends the parse in the error state
\* with the duplicate-listener error, the raw list as it was, no merged list
\* and no diagnostic; the error state is final, so no Element is produced,
\* and no Element that is produced declares an event attribute twice.
C11_DuplicateListener ==
    [][ /\ \A n \in EventNames :
             /\ PushesEvent(n) => ~DeclaresEvent(attributes, n)
             /\ parse_error' = DuplicateListener(n) /\ parse_error = << >> =>
                   /\ DeclaresEvent(attributes, n)
                   /\ epc = "attrs" /\ epc' = "err"
                   /\ attributes' = attributes
                   /\ merged_attributes' = << >>
                   /\ merge_i' = 0
        /\ epc = "err" => epc' = "err" /\ merged_attributes' = merged_attributes
        /\ (epc' = "ok" =>
               \A i, j \in 1..Len(attributes') :
                   /\ i < j
                   /\ attributes'[i].name.kind = "BuiltIn"
                   /\ attributes'[j].name.kind = "BuiltIn"
                   /\ attributes'[i].name.id \in EventNames
                   => attributes'[i].name # attributes'[j].name) ]_vars

\* ------------------------------------------------------------------------
\* Properties of Component::parse and Component::to_tokens (specification
\* SpecComponent)
\* ------------------------------------------------------------------------
\* Component::parse has returned
Parsed == cpc \in { "ok", "extended", "emitted", "emit_panic" }

\* Component::parse has returned and the component is as it was returned
Returned == cpc = "ok"

\* the number of diagnostics of the component with a message
Count(message) ==
    Cardinality({ i \in 1..Len(diagnostics) : diagnostics[i].message = message })

\* The rules of the component checks, each stated on the part of the input
\* it is about.
NameShapeBroken ==
    /\ Len(c_name) = 1
    /\ c_name[1].ident[1] \in LowercaseLetters
    /\ \A i \in 1..Len(c_name[1].ident) : c_name[1].ident[i] # "_"
EarlierSegmentHasArguments ==
    \E i \in 1..(Len(c_name) - 1) : c_name[i].arguments # "None"
LastSegmentArgumentsBroken ==
    c_name[Len(c_name)].arguments = "Parenthesized"
CustomFields == { i \in 1..Len(fields) : fields[i].name.kind = "Custom" }
RepeatedFields ==
    { i \in 1..Len(fields) :
        /\ fields[i].name.kind = "Known"
        /\ \E j \in 1..(i - 1) : fields[j].name = fields[i].name }
Spreads == { i \in 1..Len(fields) : fields[i].value.kind = "Spread" }
SpreadBroken == Cardinality(Spreads) > 1 \/ \E i \in Spreads : i # Len(fields)
KeyFields == { i \in 1..Len(fields) : fields[i].name = Known(KeyName) }
FirstKey == fields[CHOOSE i \in KeyFields : \A j \in KeyFields : i <= j]
KeyIsStatic ==
    /\ KeyFields # { }
    /\ FirstKey.value.kind = "AttrIfmt"
    /\ \A i \in 1..Len(FirstKey.value.segs) : FirstKey.value.segs[i] # Interp
KeyIsNoString == KeyFields # { } /\ FirstKey.value.kind # "AttrIfmt"

Bit(b) == IF b THEN 1 ELSE 0

\* C12 (validation never aborts): no step of Component::parse panics or
\* returns an error, every step before Ok(component) has a successor, and
\* the component that is returned has its children indexed as a body whose
\* roots are the children.
C12_NeverAborts ==
    /\ cpc # "panic"
    /\ cpc \in { "children", "validate_path", "validate_fields", "validate_key",
                 "validate_spread" } => ENABLED NextComponent
    /\ Parsed => /\ << >> \in DOMAIN bodies
                 /\ bodies[<< >>].roots = doc
                 /\ bodies[<< >>].current_path = << >>

\* C12 witness: the component of the test `rejects`, which breaks the name,
\* duplicate, spread and key rules, has been returned.
C12_Witness ==
    /\ cpc = "ok"
    /\ c_name = << Segment(LowerComp, "None") >>
    /\ fields = RejectsFields
    /\ Len(diagnostics) = 4
    /\ Len(doc) = 1

\* C13 (validation independence): a returned component holds, for every
\* rule, as many diagnostics as the input has violations of that rule, and
\* no others: none for a valid input, one for an input breaking one rule.
C13_Independence ==
    Returned =>
        /\ Count(NameCase) = Bit(NameShapeBroken)
        /\ Count(PathArgs) = Bit(EarlierSegmentHasArguments)
        /\ Count(LastArgs) = Bit(LastSegmentArgumentsBroken)
        /\ Count(CustomField) = Cardinality(CustomFields)
        /\ Count(DuplicateField) = Cardinality(RepeatedFields)
        /\ Count(SpreadLast) = Bit(SpreadBroken)
        /\ Count(KeyStatic) = Bit(KeyIsStatic)
        /\ Count(KeyForm) = Bit(KeyIsNoString)
        /\ Len(diagnostics) =
             Bit(NameShapeBroken) + Bit(EarlierSegmentHasArguments)
             + Bit(LastSegmentArgumentsBroken) + Cardinality(CustomFields)
             + Cardinality(RepeatedFields) + Bit(SpreadBroken)
             + Bit(KeyIsStatic) + Bit(KeyIsNoString)

\* C13 witness: `comp { prop: "a", prop: "b" }` has exactly the name-casing
\* and the duplicate-field diagnostic.
C13_Witness ==
    /\ cpc = "ok"
    /\ c_name = << Segment(LowerComp, "None") >>
    /\ fields = << PropA, PropB >>
    /\ Len(diagnostics) = 2
    /\ Count(NameCase) = 1
    /\ Count(DuplicateField) = 1

\* the props emitted for the field name n
PropsFor(n) ==
    SelectSeq(c_tokens[1].props, LAMBDA t : t.op \in { "builder call", "assignment" } /\ t.name = n)

\* C14 (duplicate field, first wins): the props emitted for a component hold
\* one entry for each known field name other than `key`, carrying the value
\* of the first declaration of that name.
C14_FirstFieldWins ==
    cpc = "emitted" =>
        \A i \in 1..Len(fields) :
            /\ fields[i].name.kind = "Known"
            /\ fields[i].name.id # KeyName
            /\ \A j \in 1..(i - 1) : fields[j].name # fields[i].name
            => /\ Len(PropsFor(fields[i].name.id)) = 1
               /\ PropsFor(fields[i].name.id)[1].value.segs = fields[i].value.segs

\* C15 (spread position): the validate_spread step pushes one diagnostic,
\* the spread-position one, if the fields hold a spread that is not the
\* final field or more than one spread, and pushes nothing otherwise.
C15_SpreadPosition ==
    [][ cpc = "validate_spread" /\ cpc' # cpc =>
          IF SpreadBroken
          THEN /\ Len(diagnostics') = Len(diagnostics) + 1
               /\ SubSeq(diagnostics', 1, Len(diagnostics)) = diagnostics
               /\ diagnostics'[Len(diagnostics')].message = SpreadLast
          ELSE diagnostics' = diagnostics ]_vars

\* C15 witness: two spreads, the second one final, have been flagged.
C15_Witness ==
    /\ cpc = "ok"
    /\ fields = << SpreadField, PropA, SpreadField >>
    /\ Count(SpreadLast) = 1

\* C16 (key shape): the validate_key step pushes exactly one diagnostic when
\* the key field holds a formatted string without interpolation, exactly
\* one when it holds a value that is no formatted string, and nothing when
\* the key is interpolated or there is no key field.
C16_KeyShape ==
    [][ cpc = "validate_key" /\ cpc' # cpc =>
          IF KeyIsStatic \/ KeyIsNoString
          THEN /\ Len(diagnostics') = Len(diagnostics) + 1
               /\ SubSeq(diagnostics', 1, Len(diagnostics)) = diagnostics
               /\ diagnostics'[Len(diagnostics')].message =
                    IF KeyIsStatic THEN KeyStatic ELSE KeyForm
          ELSE diagnostics' = diagnostics ]_vars

\* C16 witness: a static key has been flagged next to an unflagged prop.
C16_Witness ==
    /\ cpc = "validate_spread"
    /\ fields = << PropA, KeyStaticField >>
    /\ Count(KeyStatic) = 1
    /\ Count(KeyForm) = 0

\* C19 (diagnostics are never dropped): Component::to_tokens completes and
\* appends every diagnostic pushed by the validation steps, once each, in
\* the order they were pushed.
C19_DiagnosticsEmitted ==
    cpc \in { "emitted", "emit_panic" } =>
        /\ cpc = "emitted"
        /\ c_tokens # << >>
        /\ c_tokens[1].diagnostics = diagnostics
        /\ Len(diagnostics) >=
             Bit(NameShapeBroken) + Bit(EarlierSegmentHasArguments)
             + Bit(LastSegmentArgumentsBroken) + Cardinality(CustomFields)
             + Cardinality(RepeatedFields) + Bit(SpreadBroken)
             + Bit(KeyIsStatic) + Bit(KeyIsNoString)

\* ------------------------------------------------------------------------
\* Properties of the emission (specification Spec)
\* ------------------------------------------------------------------------
\* the body the last to_tokens call was made on
EmittedBody == emitted[1].body

\* C17 (implicit key): the key tokens of a body are the key of its root
\* when the body has exactly one root and that root is an Element or a
\* Component with a key, and are None for every other body: no root, more
\* than one root, one root of another kind, one keyless root.
C17_ImplicitKey ==
    emitted # << >> =>
        LET roots == NodesOf(EmittedBody)
        IN  emitted[1].key_tokens =
                IF Len(roots) = 1 /\ roots[1].kind \in { "Element", "Component" }
                THEN roots[1].key
                ELSE << >>

\* C17 witness: the body of a for loop whose only root is a keyed element
\* has that key, next to an outer body that has none.
C17_Witness ==
    /\ doc = << NestedNode("ForLoop", << KeyedElem >>) >>
    /\ emitted # << >>
    /\ EmittedBody = << 0 >>
    /\ emitted[1].at = "done"
    /\ emitted[1].key_tokens = << ItemKey >>

\* C18 (nested-template ordinal): a template is emitted under the ordinal
\* its body carries, and no other body of the invocation that has a
\* template carries that ordinal, so that the names file:line:col:ordinal
\* of the templates of one invocation are pairwise distinct.
C18_DistinctOrdinals ==
    emitted # << >> /\ emitted[1].at = "done" =>
        /\ emitted[1].template[1].name = bodies[EmittedBody].template_idx
        /\ \A c \in DOMAIN bodies :
             c # EmittedBody /\ Len(bodies[c].roots) # 0 =>
                 bodies[c].template_idx # emitted[1].template[1].name

\* the skeleton node at an address below a list of skeleton nodes
RECURSIVE SkeletonAt(_, _)
SkeletonAt(toks, addr) ==
    IF Len(addr) = 1 THEN toks[addr[1] + 1]
    ELSE SkeletonAt(toks[addr[1] + 1].children, Tail(addr))

\* the idx.set(..) calls on the attributes of the elements of body b
AttrWritesOf(b) == SelectSeq(idx_writes, LAMBDA w : w.body = b /\ "attr" \in DOMAIN w)

\* the slot index the attribute at offset i of the element at addr carries:
\* the last value set, << >> if none was
AttrSlotOf(b, addr, i) ==
    LET ws   == AttrWritesOf(b)
        hits == { n \in 1..Len(ws) : ws[n].node = addr /\ ws[n].attr = i }
    IN  IF hits = { } THEN << >>
        ELSE << ws[CHOOSE n \in hits : \A m \in hits : m <= n].idx >>

\* C21 (attribute index write-back): in a finished body every non-static
\* merged attribute carries a slot index equal to the position of its path
\* in attr_paths; the indices written onto attributes are exactly
\* 0 .. len(attr_paths)-1, each once, and they are counted apart from the
\* node indices.
C21_AttrWriteBack ==
    \A b \in DOMAIN bodies :
        Finished(b) =>
            LET ao == attr_origin[b]
                aw == AttrWritesOf(b)
                n  == Len(bodies[b].attr_paths)
            IN  /\ Len(ao) = n
                /\ \A k \in 1..Len(ao) : AttrSlotOf(b, ao[k][1], ao[k][2]) = << k - 1 >>
                /\ Len(aw) = n
                /\ { aw[i].idx : i \in 1..Len(aw) } = 0..(n - 1)
                /\ Len(WritesOf(b)) = Len(bodies[b].node_paths)

\* C20 (skeleton emission of dynamic attributes): to_tokens of an indexed
\* body completes, and in its skeleton the k-th recorded dynamic attribute
\* is a placeholder carrying the slot index k-1, every other attribute
\* being emitted inline.
C20_SkeletonEmission ==
    emitted # << >> =>
        /\ emitted[1].at # "panic"
        /\ emitted[1].at = "done" =>
             \A k \in 1..Len(attr_origin[EmittedBody]) :
                 LET o == attr_origin[EmittedBody][k]
                     a == SkeletonAt(emitted[1].template[1].roots, o[1]).attrs[o[2] + 1]
                 IN  a.kind = "Dynamic" /\ a.id = k - 1

\* the loop iterations entered so far while body b was indexed
VisitsOf(b) == SelectSeq(visits, LAMBDA v : v.body = b)

\* while a node is being visited, current_path is the node's own sequence
\* of child offsets from the roots of the body
PathIsOffsets ==
    pc = "visit" => bodies[cur].current_path = walk

\* the pushes not yet popped are those of the iterations still open: one per
\* active call once its iteration has pushed, none left when from_nodes has
\* returned the body
PushPopBalanced ==
    /\ pc = "head" => Len(bodies[cur].current_path) = Len(walk) - 1
    /\ pc \in { "visit", "pop" } => Len(bodies[cur].current_path) = Len(walk)
    /\ \A b \in DOMAIN bodies : Finished(b) => bodies[b].current_path = << >>

\* no node is visited twice, a finished body has had each of its nodes
\* visited, and no node had its slot index set twice
VisitedOnce ==
    \A b \in DOMAIN bodies :
        LET vs == VisitsOf(b)
            ws == WritesOf(b)
        IN  /\ Cardinality({ vs[i].node : i \in 1..Len(vs) }) = Len(vs)
            /\ Cardinality({ ws[i].node : i \in 1..Len(ws) }) = Len(ws)
            /\ Finished(b) => { vs[i].node : i \in 1..Len(vs) } = OwnAddrs(b)

\* C22 (path stack discipline): whenever the indexer visits a node,
\* current_path is exactly that node's sequence of child offsets from the
\* roots of the body, every push is matched by one pop and current_path is
\* empty when from_nodes returns, and each node of the body is visited
\* exactly once, so that no slot index is written twice.
C22_PathStack ==
    /\ PathIsOffsets
    /\ PushPopBalanced
    /\ VisitedOnce

====
